---- MODULE Spec2Model ----
(***************************************************************************)
(* FreeSurfaceCalculator (src/modules/FreeSurfaceCalculator.py) driven as  *)
(* in src/scripts/writeFreeSurfaceCsv.py: one calculator instance over a   *)
(* directory tree, writeCsvOutput called on it.                            *)
(*                                                                         *)
(* Strings are sequences of one-character strings, so that slicing,        *)
(* endswith/startswith and concatenation are computed.  Volume fractions   *)
(* are in tenths (0.5 is 5); a computed height is a rational <<num, den>>  *)
(* with den > 0.  Array indices are Python's, from 0.                      *)
(***************************************************************************)
EXTENDS Integers, Sequences, FiniteSets

\* ------------------------------------------------------------------ bounds
MaxLen == 4
MaxNameLen == 5
MaxCalls == 2

\* The interface value 0.5 of lines 96 and 100, in tenths.
Threshold == 5

\* --------------------------------------------------------------- strings
SeqsUpTo(S, n) == UNION {[1..k -> S] : k \in 0..n}

Digits == {"0", "1", "2", "3", "4", "5", "6", "7", "8", "9"}

\* Python s[-n:]
LastChars(s, n) == SubSeq(s, IF Len(s) > n THEN Len(s) - n + 1 ELSE 1, Len(s))

\* Python s.endswith(suf)
endswith(s, suf) ==
    /\ Len(s) >= Len(suf)
    /\ SubSeq(s, Len(s) - Len(suf) + 1, Len(s)) = suf

\* Python s.startswith(pre)
startswith(s, pre) == Len(s) >= Len(pre) /\ SubSeq(s, 1, Len(pre)) = pre

\* os.path.join(a, b) for a relative b
join(a, b) == IF a = <<>> \/ a[Len(a)] = "/" THEN a \o b ELSE a \o <<"/">> \o b

\* os.path.basename(p): what follows the last slash
RECURSIVE basename(_)
basename(p) ==
    IF p = <<>> THEN <<>>
    ELSE IF p[Len(p)] = "/" THEN <<>>
    ELSE basename(SubSeq(p, 1, Len(p) - 1)) \o <<p[Len(p)]>>

\* fnmatch of an entry name against the pattern '[0-9]*'
MatchesPattern(name) == name # <<>> /\ name[1] \in Digits

\* ------------------------------------------------------------ the inputs
\* A .xy file is a sequence of rows; a row is a sequence of its columns.
Fractions == {2, 5, 9}

Ascending(n) == [k \in 1..n |-> k - 1]
Descending(n) == [k \in 1..n |-> n - k]

Rows(coord, cols) ==
    [k \in 1..Len(cols) |-> IF cols[k] = 0 THEN <<coord[k]>> ELSE <<coord[k], cols[k]>>]

\* Every file of up to MaxLen rows; 0 stands for a missing second column.
AllRows ==
    UNION {{Rows(c, f) : c \in {Ascending(Len(f)), Descending(Len(f))}} :
              f \in SeqsUpTo(Fractions \cup {0}, MaxLen)}

DataFile(rows) == [name |-> <<"a", ".", "x", "y">>, rows |-> rows]
HiddenFile == [name |-> <<".", "b", ".", "x", "y">>, rows |-> <<>>]
LogFile == [name |-> <<"l", "o", "g">>, rows |-> <<>>]

Crossing == <<<<0, 9>>, <<1, 1>>>>
Crossing2 == <<<<0, 9>>, <<1, 6>>, <<2, 4>>, <<3, 1>>>>
NoCrossing == <<<<0, 9>>, <<1, 9>>>>

Listings ==
    {<<DataFile(Crossing)>>, <<DataFile(Crossing2)>>, <<DataFile(NoCrossing)>>,
     <<HiddenFile, DataFile(Crossing)>>, <<LogFile>>}

EntryNames == {<<"0", ".", "1">>, <<"0", ".", "2">>, <<"l", "o", "g">>}

Entries ==
    {[name |-> n, isDir |-> TRUE, files |-> l] : n \in EntryNames, l \in Listings}
    \cup {[name |-> n, isDir |-> FALSE, files |-> <<>>] : n \in EntryNames}

\* The parent directory's entries in the order the filesystem lists them.
Trees ==
    {t \in SeqsUpTo(Entries, Cardinality(EntryNames)) :
        \A a, b \in 1..Len(t) : a # b => t[a].name # t[b].name}

OneDir(rows) ==
    <<[name |-> <<"0", ".", "1">>, isDir |-> TRUE, files |-> <<DataFile(rows)>>]>>

NameChars == {".", "c", "s", "v"}
AllNames == SeqsUpTo(NameChars, MaxNameLen)

VARIABLES
    tree,           \* the entries of the parent directory
    parentDir,      \* self._parentDir
    outArg,         \* the script's --out argument
    self_data,      \* self._data
    fs,             \* the files written so far: name -> lines
    pc,             \* where writeCsvOutput stands
    calls,          \* writeCsvOutput calls made on the instance
    outputCsvFile, dirs, d, fileName, y, alpha, i, time, ys, output,
    err, errAt,     \* the exception that ended the call, and where it rose
    reads,          \* the indices used on y and alpha for the current file
    fsAtCall        \* fs as it was when the current call began

vars == <<tree, parentDir, outArg, self_data, fs, pc, calls, outputCsvFile, dirs,
          d, fileName, y, alpha, i, time, ys, output, err, errAt, reads, fsAtCall>>

locals == <<outputCsvFile, dirs, d, fileName, y, alpha, i, time, ys, output>>

\* ------------------------------------------------------------------ Init
\* __init__ (lines 65-66) on top of the inputs.
Fresh ==
    /\ self_data = <<>>
    /\ fs = <<>>
    /\ fsAtCall = <<>>
    /\ pc = "idle"
    /\ calls = 0
    /\ outputCsvFile = <<>>
    /\ dirs = <<>>
    /\ d = 0
    /\ fileName = <<>>
    /\ y = <<>>
    /\ alpha = <<>>
    /\ i = 0
    /\ time = <<>>
    /\ ys = <<0, 1>>
    /\ output = <<>>
    /\ err = "None"
    /\ errAt = "None"
    /\ reads = {}

\* Whole trees of timestep directories.
InitRun ==
    /\ tree \in Trees
    /\ parentDir \in {<<".">>, <<"d", "/">>}
    /\ outArg = <<"o">>

\* One timestep directory holding any file.
InitSeries ==
    /\ tree \in {OneDir(r) : r \in AllRows}
    /\ parentDir = <<".">>
    /\ outArg = <<"o">>

\* Any output file name.
InitName ==
    /\ tree = OneDir(Crossing)
    /\ parentDir = <<".">>
    /\ outArg \in AllNames

Init == Fresh /\ (InitRun \/ InitSeries \/ InitName)

\* --------------------------------------------------------------- helpers
At(arr, j) == arr[j + 1]
InRange(arr, j) == 0 <= j /\ j < Len(arr)

\* glob.glob(os.path.join(parentDir, '[0-9]*'))
glob(dir, entries) ==
    LET hits == SelectSeq(entries, LAMBDA e : MatchesPattern(e.name))
    IN  [k \in 1..Len(hits) |-> join(dir, hits[k].name)]

Entry(path) == CHOOSE e \in {tree[k] : k \in 1..Len(tree)} : e.name = basename(path)

\* Lines 83-87: the first listed file that ends in .xy and is not hidden.
RECURSIVE FirstXy(_)
FirstXy(files) ==
    IF files = <<>> THEN <<>>
    ELSE IF endswith(Head(files).name, <<".", "x", "y">>)
            /\ ~startswith(Head(files).name, <<".">>)
         THEN Head(files).name
         ELSE FirstXy(Tail(files))

FileRows(files, name) ==
    LET hit == SelectSeq(files, LAMBDA f : f.name = name) IN Head(hit).rows

\* np.loadtxt: rows of unequal width are refused.
Ragged(rows) == \E a, b \in 1..Len(rows) : Len(rows[a]) # Len(rows[b])

\* A load that keeps two dimensions whatever the file holds (ndmin=2).
ndimNoSqueeze(rows) == 2

\* np.loadtxt squeezes: no row, one row or one column give a 1-D array.
ndim(rows) ==
    IF Len(rows) <= 1 \/ Len(rows[1]) = 1 THEN 1 ELSE 2

\* data.shape[1] of a 2-D array
ncols(rows) == IF rows = <<>> THEN 0 ELSE Len(rows[1])

Column(rows, c) == [k \in 1..Len(rows) |-> rows[k][c]]

\* The loop bounded to N-2, range(alpha.size - 1), nothing else changed.
ScanRangeShort(n) == n - 1

\* range(alpha.size) of line 95
ScanRange(n) == n

\* The two operands of line 96's `and`; the second is read only after the first.
Above(a) == a > Threshold
\* The second operand written with <= instead of <.
BelowOrAt(b) == b <= Threshold
Below(b) == b < Threshold

\* np.interp(x, [x0, x1], [y0, y1]) as numpy 1.10 and later compute it:
\* binary_search_with_guess tests x > xp[-1] before x < xp[0].
interpNew(x, x0, x1, y0, y1) ==
    IF x > x1 THEN <<y1, 1>>
    ELSE IF x < x0 THEN <<y0, 1>>
    ELSE IF x = x1 THEN <<y1, 1>>
    ELSE IF x = x0 THEN <<y0, 1>>
    ELSE <<y0 * (x1 - x0) + (x - x0) * (y1 - y0), x1 - x0>>

\* ... and as numpy before 1.10 computes it: binary_search tests x < xp[0] first.
interpOld(x, x0, x1, y0, y1) ==
    IF x < x0 THEN <<y0, 1>>
    ELSE IF x >= x1 THEN <<y1, 1>>
    ELSE <<y0 * (x1 - x0) + (x - x0) * (y1 - y0), x1 - x0>>

\* np.interp does not check that xp increases; what it returns then depends
\* on the numpy build.
interp(x, x0, x1, y0, y1) == {interpNew(x, x0, x1, y0, y1), interpOld(x, x0, x1, y0, y1)}

\* '{}, {}\n'.format(*row)
FormatRow(row) == row[1] \o <<",", " ">> \o <<row[2]>> \o <<"\n">>

Written(content, rows) == content \o [k \in 1..Len(rows) |-> FormatRow(rows[k])]

\* open(name, 'w'): the file is created or truncated.
Opened(files, name) ==
    [n \in DOMAIN files \cup {name} |-> IF n = name THEN <<>> ELSE files[n]]

\* The suffix appended without looking at the name.
CsvNameAlways(name) == name \o <<".", "c", "s", "v">>

\* Lines 114-115
CsvName(name) ==
    IF ~(LastChars(name, 4) = <<".", "c", "s", "v">>)
    THEN name \o <<".", "c", "s", "v">>
    ELSE name

\* self._data.insert(0, row) in place of append.
PrependRow(rows, row) == <<row>> \o rows

\* self._data.append(row), line 103
AppendRow(rows, row) == Append(rows, row)

\* An exception path that first writes the rows gathered so far (a
\* try/finally around _calculate) and then re-raises.
RaiseAfterFlush(kind, at) ==
    /\ pc' = "raised"
    /\ err' = kind
    /\ errAt' = at
    /\ fs' = [Opened(fs, CsvName(outputCsvFile)) EXCEPT
                 ![CsvName(outputCsvFile)] = Written(@, self_data)]

\* An exception leaves _calculate and writeCsvOutput: nothing catches it, and
\* lines 114-119 are not run.
Raise(kind, at) ==
    /\ pc' = "raised"
    /\ err' = kind
    /\ errAt' = at
    /\ fs' = fs

Goes(to) == pc' = to /\ UNCHANGED <<err, errAt, fs>>

\* --------------------------------------------------------------- actions
inputs == <<tree, parentDir, outArg>>

\* writeCsvOutput(outArg) is entered; _calculate globs (lines 105, 112, 74).
Call ==
    /\ pc \in {"idle", "done", "raised"}
    /\ calls < MaxCalls
    /\ calls' = calls + 1
    /\ outputCsvFile' = outArg
    /\ dirs' = glob(parentDir, tree)
    /\ d' = 1
    /\ pc' = IF dirs' = <<>> THEN "suffix" ELSE "listdir"
    /\ err' = "None"
    /\ errAt' = "None"
    /\ fsAtCall' = fs
    /\ UNCHANGED <<inputs, self_data, fs, fileName, y, alpha, i, time, ys, output, reads>>

\* Lines 79-87
ListDir ==
    /\ pc = "listdir"
    /\ IF Entry(dirs[d]).isDir
       THEN /\ fileName' = FirstXy(Entry(dirs[d]).files)
            /\ Goes("load")
       ELSE /\ Raise("NotADirectoryError", "listdir")
            /\ UNCHANGED fileName
    /\ reads' = {}
    /\ UNCHANGED <<inputs, self_data, calls, outputCsvFile, dirs, d, y, alpha, i,
                   time, ys, output, fsAtCall>>

\* Lines 90-92, and the loop of line 95 is entered.
Load ==
    /\ pc = "load"
    /\ IF fileName = <<>>
       THEN Raise("TypeError", "load") /\ UNCHANGED <<y, alpha, i>>
       ELSE LET rows == FileRows(Entry(dirs[d]).files, fileName) IN
            IF Ragged(rows)
            THEN Raise("ValueError", "load") /\ UNCHANGED <<y, alpha, i>>
            ELSE IF ndim(rows) < 2 \/ ncols(rows) < 2
            THEN Raise("IndexError", "load") /\ UNCHANGED <<y, alpha, i>>
            ELSE /\ y' = Column(rows, 1)
                 /\ alpha' = Column(rows, 2)
                 /\ i' = 0
                 /\ Goes("scan")
    /\ UNCHANGED <<inputs, self_data, calls, outputCsvFile, dirs, d, fileName,
                   time, ys, output, reads, fsAtCall>>

\* One pass of the loop body of lines 95-97, for the current i.
Scan ==
    /\ pc = "scan"
    /\ IF Above(At(alpha, i))
       THEN /\ reads' = reads \cup {i, i + 1}
            /\ IF ~InRange(alpha, i + 1)
               THEN Raise("IndexError", "scan") /\ UNCHANGED i
               ELSE IF Below(At(alpha, i + 1))
               THEN Goes("interp") /\ UNCHANGED i
               ELSE IF i + 1 < ScanRange(Len(alpha))
               THEN Goes("scan") /\ i' = i + 1
               ELSE Goes("interp") /\ UNCHANGED i
       ELSE /\ reads' = reads \cup {i}
            /\ IF i + 1 < ScanRange(Len(alpha))
               THEN Goes("scan") /\ i' = i + 1
               ELSE Goes("interp") /\ UNCHANGED i
    /\ UNCHANGED <<inputs, self_data, calls, outputCsvFile, dirs, d, fileName, y,
                   alpha, time, ys, output, fsAtCall>>

\* Lines 99-100
Interp ==
    /\ pc = "interp"
    /\ time' = basename(dirs[d])
    /\ reads' = reads \cup {i, i + 1}
    /\ IF ~InRange(alpha, i + 1)
       THEN Raise("IndexError", "interp") /\ UNCHANGED ys
       ELSE /\ ys' \in interp(Threshold, At(alpha, i), At(alpha, i + 1),
                              At(y, i), At(y, i + 1))
            /\ Goes("save")
    /\ UNCHANGED <<inputs, self_data, calls, outputCsvFile, dirs, d, fileName, y,
                   alpha, i, output, fsAtCall>>

\* Line 103, and line 77 takes the next directory.
Save ==
    /\ pc = "save"
    /\ self_data' = AppendRow(self_data, <<time, ys>>)
    /\ IF d < Len(dirs)
       THEN d' = d + 1 /\ Goes("listdir")
       ELSE UNCHANGED d /\ Goes("suffix")
    /\ UNCHANGED <<inputs, calls, outputCsvFile, dirs, fileName, y, alpha, i,
                   time, ys, output, reads, fsAtCall>>

\* Lines 114-115
Suffix ==
    /\ pc = "suffix"
    /\ outputCsvFile' = CsvName(outputCsvFile)
    /\ Goes("open")
    /\ UNCHANGED <<inputs, self_data, calls, dirs, d, fileName, y, alpha, i,
                   time, ys, output, reads, fsAtCall>>

\* Line 116
Open ==
    /\ pc = "open"
    /\ output' = outputCsvFile
    /\ fs' = Opened(fs, outputCsvFile)
    /\ pc' = "write"
    /\ UNCHANGED <<inputs, self_data, calls, outputCsvFile, dirs, d, fileName, y,
                   alpha, i, time, ys, err, errAt, reads, fsAtCall>>

\* Line 116, when the destination cannot be opened for writing.
OpenFails ==
    /\ pc = "open"
    /\ Raise("IOError", "open")
    /\ UNCHANGED <<inputs, self_data, calls, locals, reads, fsAtCall>>

\* Lines 118-119
Write ==
    /\ pc = "write"
    /\ fs' = [fs EXCEPT ![output] = Written(@, self_data)]
    /\ pc' = "done"
    /\ UNCHANGED <<inputs, self_data, calls, locals, err, errAt, reads, fsAtCall>>

Next ==
    \/ Call
    \/ ListDir
    \/ Load
    \/ Scan
    \/ Interp
    \/ Save
    \/ Suffix
    \/ Open
    \/ OpenFails
    \/ Write

Spec == Init /\ [][Next]_vars

\* ---------------------------------------------------------------- claims
\* fraction[j] > 0.5 > fraction[j+1]
IsDescPair(a, j) ==
    /\ InRange(a, j)
    /\ InRange(a, j + 1)
    /\ At(a, j) > Threshold
    /\ At(a, j + 1) < Threshold

IsAscPair(a, j) ==
    /\ InRange(a, j)
    /\ InRange(a, j + 1)
    /\ At(a, j) < Threshold
    /\ At(a, j + 1) > Threshold

HasDescPair(a) == \E j \in 0..(Len(a) - 2) : IsDescPair(a, j)

RatEq(p, q) == p[1] * q[2] = q[1] * p[2]
\* for positive denominators
RatLess(p, q) == p[1] * q[2] < q[1] * p[2]

\* y0 + (0.5 - a0) * (y1 - y0) / (a1 - a0), with a positive denominator
LinearValue(y0, y1, a0, a1) ==
    LET n == y0 * (a1 - a0) + (Threshold - a0) * (y1 - y0)
        m == a1 - a0
    IN  IF m < 0 THEN <<0 - n, 0 - m>> ELSE <<n, m>>

\* The scan and the interpolation of the current file are under way or over.
Extracting ==
    \/ pc \in {"scan", "interp", "save"}
    \/ pc = "raised" /\ errAt \in {"scan", "interp"}

\* The extraction of the current file is over: a value, or an error.
Settled == pc = "save" \/ (pc = "raised" /\ errAt \in {"scan", "interp"})

\* The file of the current directory that line 90 loads.
CurRows == FileRows(Entry(dirs[d]).files, fileName)

\* Fewer than 2 elements, or a coordinate without its fraction.
Invalid(rows) ==
    \/ Len(rows) < 2
    \/ Cardinality({k \in 1..Len(rows) : Len(rows[k]) >= 2}) # Len(rows)

Discovered == SelectSeq(tree, LAMBDA e : MatchesPattern(e.name))

\* C1: the value computed for a selected pair (i, i+1) is the linear
\* interpolation y[i] + (0.5 - a[i]) * (y[i+1] - y[i]) / (a[i+1] - a[i]), and
\* lies strictly between y[i] and y[i+1].
C1_LinearInterpolation ==
    pc = "save" =>
        LET lin == LinearValue(At(y, i), At(y, i + 1), At(alpha, i), At(alpha, i + 1))
            lo == IF At(y, i) < At(y, i + 1) THEN At(y, i) ELSE At(y, i + 1)
            hi == IF At(y, i) < At(y, i + 1) THEN At(y, i + 1) ELSE At(y, i)
        IN  /\ RatEq(ys, lin)
            /\ RatLess(<<lo, 1>>, ys)
            /\ RatLess(ys, <<hi, 1>>)

\* C2: the pair interpolated is the descending pair of lowest index; later
\* descending pairs and ascending pairs are not used.
C2_FirstDescendingPair ==
    pc = "save" =>
        /\ IsDescPair(alpha, i)
        /\ \A j \in 0..(i - 1) : ~IsDescPair(alpha, j)

C2_Witness ==
    /\ pc = "save"
    /\ \E j \in (i + 1)..(Len(alpha) - 2) : IsDescPair(alpha, j)
    /\ \E j \in 0..(Len(alpha) - 2) : IsAscPair(alpha, j)

\* C3: every index used on fraction or coordinate during the scan and the
\* interpolation is within [0, N-1].
C3_IndicesInRange == \A j \in reads : InRange(alpha, j)

\* C4: with no descending pair the extraction goes on scanning or ends in an
\* error (Python's IndexError, the code's only signal for it), and no row is
\* recorded for the timestep.
C4_NoCrossingRaises ==
    [][(pc \in {"scan", "interp"} /\ ~HasDescPair(alpha)) =>
          /\ \/ pc' \in {"scan", "interp"}
             \/ pc' = "raised" /\ err' = "IndexError" /\ errAt' \in {"scan", "interp"}
          /\ self_data' = self_data]_vars

C4_Witness ==
    /\ pc = "raised"
    /\ err = "IndexError"
    /\ errAt = "interp"
    /\ Len(alpha) >= 2
    /\ \A j \in 0..(Len(alpha) - 1) : At(alpha, j) < Threshold
    /\ self_data = <<>>

\* C5: when some fraction[k] is exactly 0.5 the value computed is
\* coordinate[k], and no error is raised.
C5_ExactThreshold ==
    (Settled /\ \E k \in 0..(Len(alpha) - 1) : At(alpha, k) = Threshold) =>
        /\ pc = "save"
        /\ \E k \in 0..(Len(alpha) - 1) :
              At(alpha, k) = Threshold /\ RatEq(ys, <<At(y, k), 1>>)

\* C6: when the extraction of a timestep fails the call ends with an error and
\* the output files are as they were when the call began.
C6_FailureLeavesFileUntouched ==
    (pc = "raised" /\ errAt \in {"listdir", "load", "scan", "interp"}) =>
        /\ err # "None"
        /\ fs = fsAtCall

C6_Witness ==
    /\ pc = "raised"
    /\ errAt \in {"scan", "interp"}
    /\ d = 2
    /\ self_data # <<>>
    /\ calls = 1

\* C7: after the first call on a fresh calculator succeeds, the file holds one
\* line 'label, value' per discovered directory, in discovery order.
C7_RowsInDiscoveryOrder ==
    (pc = "done" /\ calls = 1) =>
        /\ output \in DOMAIN fs
        /\ Len(fs[output]) = Len(Discovered)
        /\ \A k \in 1..Len(Discovered) :
              LET rows == FileRows(Discovered[k].files, FirstXy(Discovered[k].files))
                  a == Column(rows, 2)
                  c == Column(rows, 1)
                  j == CHOOSE j \in 0..(Len(a) - 2) :
                          IsDescPair(a, j) /\ \A h \in 0..(j - 1) : ~IsDescPair(a, h)
              IN  \E v \in interp(Threshold, At(a, j), At(a, j + 1), At(c, j), At(c, j + 1)) :
                      fs[output][k] = Discovered[k].name \o <<",", " ", v, "\n">>

C7_Witness ==
    /\ pc = "done"
    /\ calls = 1
    /\ Len(tree) = 3
    /\ Len(fs[output]) = 2
    /\ SubSeq(fs[output][1], 1, 3) = <<"0", ".", "2">>
    /\ SubSeq(fs[output][2], 1, 3) = <<"0", ".", "1">>
    /\ fs[output][1][6] # fs[output][2][6]

\* C8: a file of fewer than 2 rows, or with a coordinate that lacks its
\* fraction, ends in an error raised by the load (ValueError or IndexError)
\* before any index of the scan or the interpolation is used.
C8_InvalidInputBeforeScan ==
    ((Extracting \/ (pc = "raised" /\ errAt = "load"))
       /\ fileName # <<>> /\ Invalid(CurRows)) =>
        /\ pc = "raised"
        /\ errAt = "load"
        /\ err \in {"ValueError", "IndexError"}
        /\ reads = {}

C8_Witness ==
    /\ pc = "raised"
    /\ errAt = "load"
    /\ fileName # <<>>
    /\ Len(CurRows) >= 2
    /\ Invalid(CurRows)
    /\ err = "ValueError"

\* C9: the file opened ends in '.csv': the name given when it ends in '.csv',
\* else the name given with '.csv' appended once; the rule leaves its own
\* result alone.
C9_CsvSuffix ==
    pc \in {"write", "done"} =>
        /\ output \in DOMAIN fs
        /\ endswith(output, <<".", "c", "s", "v">>)
        /\ endswith(outArg, <<".", "c", "s", "v">>) => output = outArg
        /\ ~endswith(outArg, <<".", "c", "s", "v">>) =>
              output = outArg \o <<".", "c", "s", "v">>
        /\ CsvName(output) = output

C9_Witness ==
    /\ pc = "done"
    /\ outArg = <<"c", "s", "v">>
    /\ output = <<"c", "s", "v", ".", "c", "s", "v">>

\* C10: after any number of calls on one instance the result list and the
\* file of the latest call hold exactly one row per timestep directory.
C10_OneRowPerTimestep ==
    pc = "done" =>
        /\ Len(self_data) = Len(Discovered)
        /\ Len(fs[output]) = Len(Discovered)
        /\ \A k \in 1..Len(Discovered) :
              Cardinality({r \in 1..Len(self_data) :
                              self_data[r][1] = Discovered[k].name}) = 1

====
